---- MODULE Spec2Model ----
(***************************************************************************)
(* Sliding-tile puzzle (model/board_state.py, model/sliding_direction.py)  *)
(* and its A* solver (model/tree_node.py), as driven by run_benchmark.py.  *)
(*                                                                         *)
(* A State is a record [size, board]; board is the list of rows of the     *)
(* Python object.  Coordinates (x, y) are 0-based as in the source, the    *)
(* rows and cells of a board are 1-based TLA+ sequences.                   *)
(***************************************************************************)
EXTENDS Integers, Sequences, FiniteSets, TLC

VARIABLES
    start,           \* the State held by the harness (run_benchmark.py: start)
    moves,           \* number of make_move calls applied to start so far
    call,            \* the last make_move call: receiver before/after, direction, result
    heuristic_fn,    \* per invocation: the heuristic passed to solve_by_heuristic
    pc,              \* per invocation: "start", "loop" or "done"
    open_list,       \* per invocation: the heap, a set of (f_cost, tie, node) entries
    counter,         \* per invocation: next value of itertools.count()
    expanded_nodes,  \* per invocation: expanded_nodes
    closed_set,      \* per invocation: set of expanded States
    nodes,           \* per invocation: the TreeNode objects created so far
    popped,          \* per invocation: the nodes popped so far, in pop order
    result           \* per invocation: the returned (path, expanded_nodes)

vars == <<start, moves, call, heuristic_fn, pc, open_list, counter,
          expanded_nodes, closed_set, nodes, popped, result>>

solverVars == <<heuristic_fn, pc, open_list, counter, expanded_nodes,
                closed_set, nodes, popped, result>>

(***************************************************************************)
(* Bounds of the model.                                                    *)
(***************************************************************************)
\* roots of the search are the 3x3 boards at most MaxDepth moves from the goal
MaxDepth == 5
\* 3x3 roots in the other parity class: at most UnsolvableDepth moves from the
\* goal layout with tiles 1 and 2 exchanged
UnsolvableDepth == 1
\* loop iterations of one solve_by_heuristic call that the model follows
MaxExpanded == 20
\* make_move calls applied in a row to one board
MaxMoves == 7
\* depth of the breadth-first search used to decide "the goal is reachable"
MaxReach == 8

(***************************************************************************)
(* sliding_direction.py                                                    *)
(***************************************************************************)
\* Python's None in a board cell
None == 0

\* a make_move result of None
NoneState == [size |-> 0, board |-> <<>>]

\* the members of the Enum, in definition (iteration) order
SlidingDirection == <<"DOWN", "LEFT", "UP", "RIGHT">>

Directions == {SlidingDirection[i] : i \in 1..Len(SlidingDirection)}

deltaOneSided(direction) ==
    CASE direction = "DOWN"  -> <<0, -1>>
      [] direction = "LEFT"  -> <<1, 0>>
      [] direction = "UP"    -> <<0, 1>>
      [] direction = "RIGHT" -> <<1, 0>>

delta(direction) ==
    CASE direction = "DOWN"  -> <<0, -1>>
      [] direction = "LEFT"  -> <<1, 0>>
      [] direction = "UP"    -> <<0, 1>>
      [] direction = "RIGHT" -> <<-1, 0>>

(***************************************************************************)
(* board_state.py                                                          *)
(***************************************************************************)
RECURSIVE ConcatRows(_)
ConcatRows(rows) ==
    IF rows = <<>> THEN <<>> ELSE Head(rows) \o ConcatRows(Tail(rows))

\* State.get_flat: the cells read row by row
get_flat(self) == ConcatRows(self.board)

\* State.__init__ with a board: the board is used as given
State(size, board) == [size |-> size, board |-> board]

\* the rows of a flat cell list (randomize's slicing, also used to build inputs)
Rows(size, flat) ==
    [y \in 1..size |-> [x \in 1..size |-> flat[(y - 1) * size + x]]]


\* State.find_empty: (x, y) of the first None cell in row-major order
find_empty(self) ==
    LET cells == {<<x, y>> \in (0..(self.size - 1)) \X (0..(self.size - 1)) :
                     self.board[y + 1][x + 1] = None}
    IN  CHOOSE c \in cells :
            \A o \in cells : c[2] < o[2] \/ (c[2] = o[2] /\ c[1] <= o[1])

\* an __eq__ that compares the position of the empty cell only
StateEqEmptyCell(a, b) == find_empty(a) = find_empty(b)

\* State.__eq__: equal flattened boards
StateEq(a, b) == get_flat(a) = get_flat(b)

\* new_board[y][x], new_board[ny][nx] = new_board[ny][nx], new_board[y][x]
SwapCells(board, x, y, nx, ny) ==
    [board EXCEPT ![y + 1][x + 1] = board[ny + 1][nx + 1],
                  ![ny + 1][nx + 1] = board[y + 1][x + 1]]

\* make_move without the deepcopy: the swap is done on the receiver's board
make_moveInPlace(self, direction) ==
    LET e  == find_empty(self)
        d  == delta(direction)
        nx == e[1] + d[1]
        ny == e[2] + d[2]
    IN  IF 0 <= nx /\ nx < self.size /\ 0 <= ny /\ ny < self.size
        THEN LET new_board == SwapCells(self.board, e[1], e[2], nx, ny)
             IN  [self |-> State(self.size, new_board),
                  ret  |-> State(self.size, new_board)]
        ELSE [self |-> self, ret |-> NoneState]

\* State.make_move: the receiver after the call and the returned State
make_move(self, direction) ==
    LET e  == find_empty(self)
        d  == delta(direction)
        nx == e[1] + d[1]
        ny == e[2] + d[2]
    IN  IF 0 <= nx /\ nx < self.size /\ 0 <= ny /\ ny < self.size
        THEN LET new_board == SwapCells(self.board, e[1], e[2], nx, ny)
             IN  [self |-> self, ret |-> State(self.size, new_board)]
        ELSE [self |-> self, ret |-> NoneState]

\* the inversion count with the inner loop cut to the next tile only
InversionsAdjacent(self) ==
    LET flat == SelectSeq(get_flat(self), LAMBDA n : n # None)
    IN  Cardinality({i \in 1..(Len(flat) - 1) : flat[i] > flat[i + 1]})

\* the inversion count of is_solvable: pairs of tiles out of order
Inversions(self) ==
    LET flat == SelectSeq(get_flat(self), LAMBDA n : n # None)
    IN  Cardinality({p \in (1..Len(flat)) \X (1..Len(flat)) :
                        p[1] < p[2] /\ flat[p[1]] > flat[p[2]]})

\* is_solvable with the even-grid rule applied to every size
is_solvableEvenRule(self) ==
    LET empty_y == find_empty(self)[2]
        empty_y_from_bottom == (self.size - 1) - empty_y
    IN  (Inversions(self) + empty_y_from_bottom) % 2 = 0

\* State.is_solvable
is_solvable(self) ==
    IF self.size % 2 = 1
    THEN Inversions(self) % 2 = 0
    ELSE LET empty_y == find_empty(self)[2]
             empty_y_from_bottom == (self.size - 1) - empty_y
         IN  (Inversions(self) + empty_y_from_bottom) % 2 = 0

\* the goal list [None, 1, ..., size*size-1] of is_finished and hamming_cost
GoalFlat(size) == [i \in 1..(size * size) |-> IF i = 1 THEN None ELSE i - 1]

\* State.is_finished
is_finished(self) == get_flat(self) = GoalFlat(self.size)

\* hamming_cost without the "is not None" test: the empty cell counts as a tile
hamming_costCountEmpty(self) ==
    LET goal == GoalFlat(self.size)
        flat == get_flat(self)
    IN  Cardinality({i \in 1..Len(flat) : flat[i] # goal[i]})

\* State.hamming_cost
hamming_cost(self) ==
    LET goal == GoalFlat(self.size)
        flat == get_flat(self)
    IN  Cardinality({i \in 1..Len(flat) : flat[i] # None /\ flat[i] # goal[i]})

Abs(n) == IF n < 0 THEN -n ELSE n

\* the grid distance between the cells with 0-based indexes index and goal_index
CellDistance(size, index, goal_index) ==
    Abs((index \div size) - (goal_index \div size))
    + Abs((index % size) - (goal_index % size))

\* the loop of manhattan_cost from 0-based index i on, with the goal index of
\* the empty-last layout (value - 1)
RECURSIVE ManhattanLoopEmptyLast(_, _, _)
ManhattanLoopEmptyLast(flat, size, i) ==
    IF i >= Len(flat) THEN 0
    ELSE (IF flat[i + 1] = None THEN 0
          ELSE CellDistance(size, i, flat[i + 1] - 1))
         + ManhattanLoopEmptyLast(flat, size, i + 1)

\* manhattan_cost with the goal index of the empty-last layout
manhattan_costEmptyLast(self) ==
    ManhattanLoopEmptyLast(get_flat(self), self.size, 0)

\* the loop of manhattan_cost without the "continue" on the empty cell: the
\* empty cell is measured against index 0 like a tile
RECURSIVE ManhattanLoopCountEmpty(_, _, _)
ManhattanLoopCountEmpty(flat, size, i) ==
    IF i >= Len(flat) THEN 0
    ELSE CellDistance(size, i, flat[i + 1])
         + ManhattanLoopCountEmpty(flat, size, i + 1)

\* manhattan_cost that also measures the empty cell
manhattan_costCountEmpty(self) ==
    ManhattanLoopCountEmpty(get_flat(self), self.size, 0)

\* the loop of manhattan_cost from 0-based index i on: goal_index = value
RECURSIVE ManhattanLoop(_, _, _)
ManhattanLoop(flat, size, i) ==
    IF i >= Len(flat) THEN 0
    ELSE (IF flat[i + 1] = None THEN 0
          ELSE CellDistance(size, i, flat[i + 1]))
         + ManhattanLoop(flat, size, i + 1)

\* State.manhattan_cost
manhattan_cost(self) == ManhattanLoop(get_flat(self), self.size, 0)

(***************************************************************************)
(* tree_node.py                                                            *)
(***************************************************************************)
\* the two invocations of oneRunManhattanHamming: node_manhattan, node_hamming
Runs == {1, 2}

Heuristics == {"manhattan", "hamming"}

\* heuristic_fn(state): the lambdas passed by run_benchmark.py
Heuristic(name, state) ==
    IF name = "manhattan" THEN manhattan_cost(state) ELSE hamming_cost(state)

\* a path of None
NonePath == <<>>

\* TreeNode.__init__ that leaves g_cost at its default
TreeNodeDefaultCost(state, parent, g_cost) ==
    [state |-> state, parent |-> parent, g_cost |-> 0]

\* TreeNode.__init__; parent is an index into nodes, 0 for None
TreeNode(state, parent, g_cost) ==
    [state |-> state, parent |-> parent, g_cost |-> g_cost]

\* a pop from a max-heap: the entry largest in (f_cost, tie) order
heappopLargest(heap) ==
    CHOOSE e \in heap :
        \A o \in heap :
            e.f_cost > o.f_cost \/ (e.f_cost = o.f_cost /\ e.tie >= o.tie)

\* a pop that breaks f_cost ties in favour of the newest entry
heappopNewest(heap) ==
    CHOOSE e \in heap :
        \A o \in heap :
            e.f_cost < o.f_cost \/ (e.f_cost = o.f_cost /\ e.tie >= o.tie)

\* heapq.heappop: the entry smallest in (f_cost, tie) order
heappop(heap) ==
    CHOOSE e \in heap :
        \A o \in heap :
            e.f_cost < o.f_cost \/ (e.f_cost = o.f_cost /\ e.tie <= o.tie)

Reverse(seq) == [i \in 1..Len(seq) |-> seq[Len(seq) + 1 - i]]

\* the states from node back to the root, following .parent
RECURSIVE PathBackward(_, _)
PathBackward(ns, node) ==
    IF node = 0 THEN <<>>
    ELSE <<ns[node].state>> \o PathBackward(ns, ns[node].parent)

\* _reconstruct_path without the final reverse
reconstruct_pathNoReverse(ns, node) == PathBackward(ns, node)

\* TreeNode._reconstruct_path
reconstruct_path(ns, node) == Reverse(PathBackward(ns, node))

\* the pruning test without the closed set: no state is ever found closed
InClosedNever(state, closed) == FALSE

\* the pruning test against one closed set shared by all invocations
InClosedShared(state, closed) ==
    \E r \in Runs : \E c \in closed \cup closed_set[r] : StateEq(c, state)

\* "neighbor_state in closed_set": membership by __eq__
InClosed(state, closed) == \E c \in closed : StateEq(c, state)

\* f_cost of a greedy best-first search: the path cost is left out
f_cost_ofGreedy(g_cost, h_cost) == h_cost

\* f_cost with the path cost subtracted instead of added
f_cost_ofMinus(g_cost, h_cost) == h_cost - g_cost

\* f_cost = g_cost + h_cost
f_cost_of(g_cost, h_cost) == g_cost + h_cost

\* the neighbour states that pass the pruning test of the for loop, in the
\* iteration order of SlidingDirection (closed_set does not change in the loop)
NeighborStates(state, closed) ==
    SelectSeq([i \in 1..Len(SlidingDirection) |->
                  make_move(state, SlidingDirection[i]).ret],
              LAMBDA neighbor_state :
                  ~(neighbor_state = NoneState \/ InClosed(neighbor_state, closed)))

\* the TreeNode objects the for loop creates for the popped node current
NeighborNodes(ns, current, neighbors) ==
    [k \in 1..Len(neighbors) |->
        TreeNode(neighbors[k], current, ns[current].g_cost + 1)]

\* the entries the for loop pushes: the k-th new node gets the k-th next
\* value of the counter
NeighborEntries(ns, first_tie, h, new_nodes) ==
    {[f_cost |-> f_cost_of(new_nodes[k].g_cost, Heuristic(h, new_nodes[k].state)),
      tie    |-> first_tie + (k - 1),
      node   |-> Len(ns) + k] : k \in 1..Len(new_nodes)}

\* the while loop of solve_by_heuristic run from the given local variables to
\* its return, without interruption: the returned (path, expanded_nodes) and
\* the states popped on the way
RECURSIVE SolveLoop(_, _, _, _, _, _, _)
SolveLoop(h, open, cnt, expanded, closed, ns, pops) ==
    IF open = {}
    THEN [path |-> NonePath, expanded |-> expanded, pops |-> pops]
    ELSE LET e         == heappop(open)
             current   == ns[e.node].state
             closed2   == closed \cup {current}
             neighbors == NeighborStates(current, closed2)
             new_nodes == NeighborNodes(ns, e.node, neighbors)
         IN  IF is_finished(current)
             THEN [path |-> reconstruct_path(ns, e.node),
                   expanded |-> expanded + 1,
                   pops |-> Append(pops, current)]
             ELSE SolveLoop(h,
                            (open \ {e}) \cup NeighborEntries(ns, cnt, h, new_nodes),
                            cnt + Len(new_nodes), expanded + 1, closed2,
                            ns \o new_nodes, Append(pops, current))

\* TreeNode(root).solve_by_heuristic(h) as one uninterrupted call
solve_by_heuristic(root, h) ==
    SolveLoop(h, {[f_cost |-> Heuristic(h, root), tie |-> 0, node |-> 1]},
              1, 0, {}, <<TreeNode(root, 0, 0)>>, <<>>)

(***************************************************************************)
(* Inputs                                                                  *)
(***************************************************************************)
\* every valid board of the given size
AllBoards(size) ==
    LET n == size * size
    IN  {State(size, Rows(size, f)) :
            f \in {g \in [1..n -> 0..(n - 1)] :
                      \A i, j \in 1..n : i # j => g[i] # g[j]}}

\* the states at most k legal moves away from those of frontier
RECURSIVE ReachWithin(_, _, _)
ReachWithin(seen, frontier, k) ==
    IF k = 0 \/ frontier = {} THEN seen
    ELSE LET nxt == {make_move(s, d).ret : s \in frontier, d \in Directions}
                        \ ({NoneState} \cup seen)
         IN  ReachWithin(seen \cup nxt, nxt, k - 1)

Within(seed, k) == ReachWithin({seed}, {seed}, k)

\* the board accepted by is_finished
GoalState(size) == State(size, Rows(size, GoalFlat(size)))

\* the goal layout with tiles 1 and 2 exchanged
SwappedFlat(size) ==
    [i \in 1..(size * size) |->
        IF i = 2 THEN 2 ELSE IF i = 3 THEN 1 ELSE GoalFlat(size)[i]]

SwappedState(size) == State(size, Rows(size, SwappedFlat(size)))

\* a 3x3 root 7 moves from the goal on which both searches reach one board
\* along two different parent chains
DeepRoot == State(3, <<<<1, 5, 4>>, <<3, 2, None>>, <<6, 7, 8>>>>)

\* roots on which every search ends within MaxExpanded iterations
TerminatingRoots ==
    AllBoards(2) \cup Within(GoalState(3), MaxDepth) \cup {DeepRoot}

\* 3x3 roots of the other parity class: the search is cut at MaxExpanded
CappedRoots == Within(SwappedState(3), UnsolvableDepth)

\* boards on which the make_move walk starts
MoveSeeds == AllBoards(2) \cup {GoalState(3), SwappedState(3)}

NoCall == [self_before |-> NoneState, direction |-> "NONE",
           self_after |-> NoneState, ret |-> NoneState]

(***************************************************************************)
(* State machine                                                           *)
(***************************************************************************)
\* the harness has built TreeNode(copy.deepcopy(start)) for each invocation
InitSolver ==
    /\ heuristic_fn = [r \in Runs |-> IF r = 1 THEN "manhattan" ELSE "hamming"]
    /\ pc = [r \in Runs |-> "start"]
    /\ open_list = [r \in Runs |-> {}]
    /\ counter = [r \in Runs |-> 0]
    /\ expanded_nodes = [r \in Runs |-> 0]
    /\ closed_set = [r \in Runs |-> {}]
    /\ nodes = [r \in Runs |-> <<TreeNode(start, 0, 0)>>]
    /\ popped = [r \in Runs |-> <<>>]
    /\ result = [r \in Runs |-> [path |-> NonePath, expanded |-> 0]]

Init ==
    /\ start \in CappedRoots \cup TerminatingRoots
    /\ moves = 0
    /\ call = NoCall
    /\ InitSolver

InitTerminating ==
    /\ start \in TerminatingRoots
    /\ moves = 0
    /\ call = NoCall
    /\ InitSolver

InitMoves ==
    /\ start \in MoveSeeds
    /\ moves = 0
    /\ call = NoCall
    /\ InitSolver

\* two invocations on copies of one root, each with a heuristic of its own
\* (equal or different)
InitPair ==
    /\ start \in TerminatingRoots
    /\ moves = 0
    /\ call = NoCall
    /\ heuristic_fn \in [Runs -> Heuristics]
    /\ pc = [r \in Runs |-> "start"]
    /\ open_list = [r \in Runs |-> {}]
    /\ counter = [r \in Runs |-> 0]
    /\ expanded_nodes = [r \in Runs |-> 0]
    /\ closed_set = [r \in Runs |-> {}]
    /\ nodes = [r \in Runs |-> <<TreeNode(start, 0, 0)>>]
    /\ popped = [r \in Runs |-> <<>>]
    /\ result = [r \in Runs |-> [path |-> NonePath, expanded |-> 0]]

\* start = start.make_move(direction), keeping start when the result is None
MakeMove(direction) ==
    /\ moves < MaxMoves
    /\ LET r == make_move(start, direction)
       IN  /\ call' = [self_before |-> start, direction |-> direction,
                       self_after |-> r.self, ret |-> r.ret]
           /\ start' = IF r.ret = NoneState THEN r.self ELSE r.ret
    /\ moves' = moves + 1
    /\ UNCHANGED solverVars

\* solve_by_heuristic up to the while loop
Start(r) ==
    /\ pc[r] = "start"
    /\ LET h_cost == Heuristic(heuristic_fn[r], nodes[r][1].state)
           f_cost == h_cost
       IN  open_list' = [open_list EXCEPT ![r] =
                            {[f_cost |-> f_cost, tie |-> counter[r], node |-> 1]}]
    /\ counter' = [counter EXCEPT ![r] = counter[r] + 1]
    /\ expanded_nodes' = [expanded_nodes EXCEPT ![r] = 0]
    /\ closed_set' = [closed_set EXCEPT ![r] = {}]
    /\ pc' = [pc EXCEPT ![r] = "loop"]
    /\ UNCHANGED <<start, moves, call, heuristic_fn, nodes, popped, result>>

\* a loop iteration that pops a finished state and returns the path
\* (at most MaxExpanded iterations of one call are followed)
PopGoal(r) ==
    /\ pc[r] = "loop"
    /\ open_list[r] # {}
    /\ expanded_nodes[r] < MaxExpanded
    /\ \E e \in {heappop(open_list[r])} :
           /\ is_finished(nodes[r][e.node].state)
           /\ open_list' = [open_list EXCEPT ![r] = open_list[r] \ {e}]
           /\ expanded_nodes' = [expanded_nodes EXCEPT ![r] = expanded_nodes[r] + 1]
           /\ popped' = [popped EXCEPT ![r] = Append(popped[r], e.node)]
           /\ result' = [result EXCEPT ![r] =
                            [path |-> reconstruct_path(nodes[r], e.node),
                             expanded |-> expanded_nodes[r] + 1]]
    /\ pc' = [pc EXCEPT ![r] = "done"]
    /\ UNCHANGED <<start, moves, call, heuristic_fn, counter, closed_set, nodes>>

\* a loop iteration that pops an unfinished state, closes it and pushes its
\* neighbours
Expand(r) ==
    /\ pc[r] = "loop"
    /\ open_list[r] # {}
    /\ expanded_nodes[r] < MaxExpanded
    /\ \E e \in {heappop(open_list[r])} :
         \E closed \in {closed_set[r] \cup {nodes[r][e.node].state}} :
           \E neighbors \in {NeighborStates(nodes[r][e.node].state, closed)} :
             \E new_nodes \in {NeighborNodes(nodes[r], e.node, neighbors)} :
               /\ ~is_finished(nodes[r][e.node].state)
               /\ expanded_nodes' =
                      [expanded_nodes EXCEPT ![r] = expanded_nodes[r] + 1]
               /\ popped' = [popped EXCEPT ![r] = Append(popped[r], e.node)]
               /\ closed_set' = [closed_set EXCEPT ![r] = closed]
               /\ open_list' = [open_list EXCEPT ![r] =
                                   (open_list[r] \ {e}) \cup
                                   NeighborEntries(nodes[r], counter[r],
                                                   heuristic_fn[r], new_nodes)]
               /\ counter' = [counter EXCEPT ![r] = counter[r] + Len(new_nodes)]
               /\ nodes' = [nodes EXCEPT ![r] = nodes[r] \o new_nodes]
    /\ UNCHANGED <<start, moves, call, heuristic_fn, pc, result>>

\* the while loop ends on an empty open_list: return None, expanded_nodes
Exhausted(r) ==
    /\ pc[r] = "loop"
    /\ open_list[r] = {}
    /\ result' = [result EXCEPT ![r] =
                     [path |-> NonePath, expanded |-> expanded_nodes[r]]]
    /\ pc' = [pc EXCEPT ![r] = "done"]
    /\ UNCHANGED <<start, moves, call, heuristic_fn, open_list, counter,
                   expanded_nodes, closed_set, nodes, popped>>

Solve(r) == Start(r) \/ PopGoal(r) \/ Expand(r) \/ Exhausted(r)

Next == \E r \in Runs : Solve(r)

NextMoves == \E direction \in Directions : MakeMove(direction)

\* the solver on every root of the model
Spec == Init /\ [][Next]_vars

\* the solver runs to completion: no invocation stops in the middle of its loop
FairSpec == InitTerminating /\ [][Next]_vars /\ WF_vars(Next)

\* two interleaved invocations with any pair of heuristics
SpecPair == InitPair /\ [][Next]_vars

\* make_move applied repeatedly to a board
SpecMoves == InitMoves /\ [][NextMoves]_vars

(***************************************************************************)
(* Properties                                                              *)
(***************************************************************************)
\* length of a shortest sequence of legal moves from frontier's states to a
\* finished state, by breadth-first search over make_move; -1 when no finished
\* state is found within limit moves
RECURSIVE Distance(_, _, _, _)
Distance(seen, frontier, k, limit) ==
    IF \E s \in frontier : is_finished(s) THEN k
    ELSE IF frontier = {} \/ k >= limit THEN -1
    ELSE LET nxt == {make_move(s, d).ret : s \in frontier, d \in Directions}
                        \ ({NoneState} \cup seen)
         IN  Distance(seen \cup nxt, nxt, k + 1, limit)

ShortestPathLength(s) == Distance({s}, {s}, 0, MaxReach)

GoalReachable(s) == ShortestPathLength(s) >= 0

\* a and b are connected by exactly one legal move
OneMove(a, b) ==
    \E d \in Directions :
        /\ make_move(a, d).ret # NoneState
        /\ StateEq(make_move(a, d).ret, b)

\* each of None, 1, ..., size*size-1 occurs exactly once on the board
ValidBoard(s) ==
    /\ Len(s.board) = s.size
    /\ \A y \in 1..s.size : Len(s.board[y]) = s.size
    /\ \A v \in 0..(s.size * s.size - 1) :
          Cardinality({c \in (1..s.size) \X (1..s.size) :
                          s.board[c[2]][c[1]] = v}) = 1

\* C1: for every 3x3 root accepted by is_solvable and either heuristic, the
\* search returns a path, and its number of states minus one is the length of
\* a shortest move sequence from the root to the goal (breadth-first search).
C1_OptimalPath ==
    \A r \in Runs :
        (pc[r] = "done" /\ start.size = 3 /\ is_solvable(start)) =>
            /\ result[r].path # NonePath
            /\ Len(result[r].path) - 1 = ShortestPathLength(start)

C1_Witness ==
    \E r \in Runs :
        /\ pc[r] = "done" /\ start.size = 3 /\ is_solvable(start)
        /\ heuristic_fn[r] = "hamming"
        /\ Len(result[r].path) - 1 = MaxDepth
        /\ result[r].expanded > Len(result[r].path)

\* C2: a returned path starts at the root, ends in a finished state, and each
\* consecutive pair of its states is connected by one legal move.
C2_PathIsLegal ==
    \A r \in Runs :
        (pc[r] = "done" /\ result[r].path # NonePath) =>
            LET p == result[r].path
            IN  /\ StateEq(p[1], start)
                /\ is_finished(p[Len(p)])
                /\ \A i \in 1..(Len(p) - 1) : OneMove(p[i], p[i + 1])

C2_Witness ==
    \E r \in Runs :
        /\ pc[r] = "done"
        /\ Len(result[r].path) >= 4
        /\ StateEq(result[r].path[1], start)

\* C3: a root that is_solvable rejects is not searched: nothing is popped, no
\* neighbour node is created, the expansion count stays 0 and the result
\* carries no path.
C3_FailFast ==
    \A r \in Runs :
        ~is_solvable(start) =>
            /\ popped[r] = <<>>
            /\ Len(nodes[r]) = 1
            /\ expanded_nodes[r] = 0
            /\ pc[r] = "done" =>
                  (result[r].path = NonePath /\ result[r].expanded = 0)

\* C4: for a root of size 2 or 3 accepted by is_solvable the open list is
\* never empty inside the loop and the search returns a path, never None.
C4_SolvableNeverExhausts ==
    \A r \in Runs :
        is_solvable(start) =>
            /\ pc[r] = "loop" => open_list[r] # {}
            /\ pc[r] = "done" => result[r].path # NonePath

\* C5: is_solvable is exact for the program's own goal: a board of size 2 or 3
\* is accepted iff the board accepted by is_finished is reachable from it by
\* legal moves.
C5_SolvableIffGoalReachable ==
    is_solvable(start) <=> GoalReachable(start)

\* C6: every invocation terminates: it pops a finished state and returns the
\* path, or it empties the open list and returns (None, expanded_nodes).
C6_Terminates ==
    \A r \in Runs :
        <>(/\ pc[r] = "done"
           /\ \/ result[r].path # NonePath
              \/ /\ open_list[r] = {}
                 /\ result[r] = [path |-> NonePath,
                                 expanded |-> expanded_nodes[r]])

C6_Witness ==
    \E r \in Runs :
        /\ pc[r] = "done"
        /\ result[r].path = NonePath
        /\ open_list[r] = {}
        /\ result[r].expanded > 1

\* the contract of one make_move call
MakeMoveContract(s, direction) ==
    LET r  == make_move(s, direction)
        e  == find_empty(s)
        nx == e[1] + delta(direction)[1]
        ny == e[2] + delta(direction)[2]
        inside == nx \in 0..(s.size - 1) /\ ny \in 0..(s.size - 1)
    IN  /\ (r.ret = NoneState) <=> ~inside
        /\ inside =>
              /\ r.ret.size = s.size
              /\ ValidBoard(r.ret)
              /\ r.ret.board[e[2] + 1][e[1] + 1] = s.board[ny + 1][nx + 1]
              /\ r.ret.board[ny + 1][nx + 1] = None
              /\ \A x, y \in 0..(s.size - 1) :
                    (<<x, y>> # e /\ <<x, y>> # <<nx, ny>>) =>
                        r.ret.board[y + 1][x + 1] = s.board[y + 1][x + 1]
        /\ r.self = s

\* C7: make_move returns None exactly when the neighbour coordinate is outside
\* the grid; otherwise a valid board that differs from the receiver only in
\* the exchanged empty and neighbour cells; the receiver is never changed.
C7_MakeMoveContract ==
    /\ ValidBoard(start)
    /\ \A direction \in Directions : MakeMoveContract(start, direction)
    /\ call # NoCall => call.self_after = call.self_before

C7_Witness ==
    /\ call # NoCall
    /\ call.ret # NoneState
    /\ call.ret # call.self_before
    /\ call.self_after = call.self_before
    /\ start = call.ret

\* the direction whose offset is the negation of direction's offset
Opposites(direction) ==
    {o \in Directions : delta(o) = <<-delta(direction)[1], -delta(direction)[2]>>}

\* C8: after a legal move in direction d, the direction with the negated
\* offset exists, is legal on the result, and leads back to the original state.
C8_OppositeUndoes ==
    \A d \in Directions :
        make_move(start, d).ret # NoneState =>
            \E o \in Opposites(d) :
                /\ make_move(make_move(start, d).ret, o).ret # NoneState
                /\ StateEq(make_move(make_move(start, d).ret, o).ret, start)

C8_Witness ==
    /\ call.ret # NoneState
    /\ start = call.ret
    /\ \E o \in Opposites(call.direction) :
          StateEq(make_move(start, o).ret, call.self_before)

\* C9: is_solvable gives the same answer before and after every legal move,
\* for size 2 and size 3.
C9_SolvableInvariant ==
    /\ \A d \in Directions :
          make_move(start, d).ret # NoneState =>
              (is_solvable(make_move(start, d).ret) <=> is_solvable(start))
    /\ call.ret # NoneState =>
          (is_solvable(call.ret) <=> is_solvable(call.self_before))

C9_Witness ==
    /\ call.ret # NoneState
    /\ start.size = 3
    /\ call.direction \in {"UP", "DOWN"}
    /\ ~is_solvable(call.self_before)
    /\ ~is_solvable(start)

\* C10: manhattan_cost is never below hamming_cost, and each of the two is 0
\* exactly on the board accepted by is_finished.
C10_HeuristicsAgreeOnGoal ==
    /\ manhattan_cost(start) >= hamming_cost(start)
    /\ hamming_cost(start) = 0 <=> is_finished(start)
    /\ manhattan_cost(start) = 0 <=> is_finished(start)

C10_Witness ==
    /\ moves > 0
    /\ hamming_cost(start) > 0
    /\ manhattan_cost(start) > hamming_cost(start)

\* C11: on every board from which the goal is reachable, hamming_cost and
\* manhattan_cost are non-negative and at most the length of a shortest move
\* sequence to the goal (breadth-first search over make_move).
C11_Admissible ==
    GoalReachable(start) =>
        /\ 0 <= hamming_cost(start)
        /\ hamming_cost(start) <= ShortestPathLength(start)
        /\ 0 <= manhattan_cost(start)
        /\ manhattan_cost(start) <= ShortestPathLength(start)

C11_Witness ==
    /\ moves > 0
    /\ start.size = 3
    /\ GoalReachable(start)
    /\ hamming_cost(start) > 0
    /\ manhattan_cost(start) < ShortestPathLength(start)

\* C12: a root that is the goal board is returned as a 1-state path after
\* exactly 1 expansion; a root one legal move from the goal board yields a
\* 2-state path after at most 3 expansions (the popped goal node is counted).
C12_NearGoalEffort ==
    \A r \in Runs :
        /\ StateEq(start, GoalState(start.size)) =>
              /\ expanded_nodes[r] <= 1
              /\ pc[r] = "done" =>
                    (Len(result[r].path) = 1 /\ result[r].expanded = 1)
        /\ OneMove(start, GoalState(start.size)) =>
              /\ expanded_nodes[r] <= 3
              /\ pc[r] = "done" =>
                    (Len(result[r].path) = 2 /\ result[r].expanded <= 3)

C12_Witness ==
    \E r \in Runs :
        /\ start.size = 3
        /\ OneMove(start, GoalState(3))
        /\ pc[r] = "done"
        /\ Len(result[r].path) = 2
        /\ result[r].expanded = 2

\* the board s with the contents of the cells at row-major positions i and j
\* exchanged
ExchangeCells(s, i, j) ==
    LET flat == get_flat(s)
    IN  State(s.size,
              Rows(s.size, [k \in 1..Len(flat) |->
                               IF k = i THEN flat[j]
                               ELSE IF k = j THEN flat[i] ELSE flat[k]]))

\* the pairs of positions of s that both hold a tile
TilePairs(s) ==
    {p \in (1..(s.size * s.size)) \X (1..(s.size * s.size)) :
        p[1] < p[2] /\ get_flat(s)[p[1]] # None /\ get_flat(s)[p[2]] # None}

\* C13: on a 3x3 board, exchanging two tiles (the empty cell stays) flips the
\* answer of is_solvable; the goal layout with tiles 1 and 2 exchanged, and
\* with any other two tiles exchanged, is rejected.
C13_ExchangeFlips ==
    start.size = 3 =>
        /\ \A p \in TilePairs(start) :
              is_solvable(ExchangeCells(start, p[1], p[2])) # is_solvable(start)
        /\ ~is_solvable(SwappedState(3))
        /\ \A p \in TilePairs(GoalState(3)) :
              ~is_solvable(ExchangeCells(GoalState(3), p[1], p[2]))

C13_Witness ==
    /\ start.size = 3
    /\ moves > 0
    /\ ~is_solvable(start)
    /\ \E p \in TilePairs(start) :
          /\ p[2] > p[1] + 1
          /\ is_solvable(ExchangeCells(start, p[1], p[2]))

\* C14: within one invocation no board is popped and expanded twice, so the
\* expansion count is at most the number of boards reachable from the root
\* (counted for size 2, where 12 moves reach every reachable board).
C14_NoReexpansion ==
    \A r \in Runs :
        /\ \A i, j \in 1..Len(popped[r]) :
              i < j => ~StateEq(nodes[r][popped[r][i]].state,
                                nodes[r][popped[r][j]].state)
        /\ start.size = 2 =>
              expanded_nodes[r] <= Cardinality(Within(start, 12))

\* the entry of invocation r removed by a step that pops
PoppedEntry(r) ==
    CHOOSE e \in open_list[r] : e.node = popped'[r][Len(popped'[r])]

\* C15: every pop removes the one frontier entry that is smallest in f_cost
\* and, among equal f_cost, smallest in sequence number; sequence numbers are
\* unique, below the counter, and increase in push (node creation) order.
C15_PopOrder ==
    [][\A r \in Runs :
          /\ Len(popped'[r]) > Len(popped[r]) =>
                /\ \E e \in open_list[r] : e.node = popped'[r][Len(popped'[r])]
                /\ PoppedEntry(r) \notin open_list'[r]
                /\ open_list[r] \ {PoppedEntry(r)} \subseteq open_list'[r]
                /\ \A o \in open_list[r] \ {PoppedEntry(r)} :
                      \/ PoppedEntry(r).f_cost < o.f_cost
                      \/ /\ PoppedEntry(r).f_cost = o.f_cost
                         /\ PoppedEntry(r).tie < o.tie
                /\ \A n \in open_list'[r] \ open_list[r] :
                      \A o \in open_list[r] : n.tie > o.tie
          /\ \A a, b \in open_list'[r] :
                /\ a.tie < counter'[r]
                /\ a.tie = b.tie => a = b
                /\ a.node < b.node <=> a.tie < b.tie
      ]_vars

C15_Witness ==
    \E r \in Runs :
        /\ Len(popped[r]) >= 2
        /\ \E o \in open_list[r] :
              LET p == popped[r][Len(popped[r])]
              IN  /\ o.f_cost = f_cost_of(nodes[r][p].g_cost,
                                          Heuristic(heuristic_fn[r],
                                                    nodes[r][p].state))
                  /\ o.node > p
                  /\ o.node < Len(nodes[r]) - 3

\* C16: for every legal move s -> s2, manhattan_cost changes by exactly 1 and
\* hamming_cost by at most 1, so h(s) <= 1 + h(s2) for both heuristics.
C16_Consistent ==
    \A d \in Directions :
        make_move(start, d).ret # NoneState =>
            /\ manhattan_cost(start) <= 1 + manhattan_cost(make_move(start, d).ret)
            /\ hamming_cost(start) <= 1 + hamming_cost(make_move(start, d).ret)
            /\ Abs(manhattan_cost(start)
                   - manhattan_cost(make_move(start, d).ret)) = 1
            /\ Abs(hamming_cost(start)
                   - hamming_cost(make_move(start, d).ret)) <= 1

C16_Witness ==
    /\ call.ret # NoneState
    /\ start = call.ret
    /\ start.size = 3
    /\ manhattan_cost(call.self_before) = 1 + manhattan_cost(start)
    /\ hamming_cost(call.self_before) = hamming_cost(start)
    /\ hamming_cost(start) > 0

\* C17: the root node has g_cost 0 and no parent; every other node has its
\* parent's g_cost plus 1, which is the number of parent links from it to the
\* root; the key of every frontier entry is its node's g_cost plus the
\* heuristic value of its node's state.
C17_PathCost ==
    \A r \in Runs :
        /\ nodes[r][1].g_cost = 0
        /\ nodes[r][1].parent = 0
        /\ \A n \in 2..Len(nodes[r]) :
              /\ nodes[r][n].parent \in 1..(n - 1)
              /\ nodes[r][n].g_cost = nodes[r][nodes[r][n].parent].g_cost + 1
              /\ nodes[r][n].g_cost = Len(PathBackward(nodes[r], n)) - 1
        /\ \A e \in open_list[r] :
              e.f_cost = nodes[r][e.node].g_cost
                         + Heuristic(heuristic_fn[r], nodes[r][e.node].state)

C17_Witness ==
    \E r \in Runs :
        \E e \in open_list[r] :
            /\ nodes[r][e.node].g_cost >= 4
            /\ Len(PathBackward(nodes[r], e.node)) = nodes[r][e.node].g_cost + 1
            /\ e.f_cost > nodes[r][e.node].g_cost

\* the state of the node that invocation r pops in this step
PoppedState(r) == nodes[r][popped'[r][Len(popped'[r])]].state

\* the neighbours of PoppedState(r) that must be pushed: the move stays
\* inside the grid and no state closed at that moment has the same flat board
MustPush(r) ==
    {make_move(PoppedState(r), d).ret : d \in
        {o \in Directions :
            /\ make_move(PoppedState(r), o).ret # NoneState
            /\ \A c \in closed_set'[r] :
                  get_flat(c) # get_flat(make_move(PoppedState(r), o).ret)}}

\* C18: the neighbours pushed by an iteration are exactly those reached by a
\* move inside the grid whose flat board equals that of no closed state (the
\* popped state included), one entry and one node per such neighbour; an
\* iteration that returns pushes nothing.
C18_PushIffOpen ==
    [][\A r \in Runs :
          Len(popped'[r]) > Len(popped[r]) =>
              /\ pc'[r] = "loop" =>
                    /\ closed_set'[r] = closed_set[r] \cup {PoppedState(r)}
                    /\ {nodes'[r][n.node].state :
                            n \in open_list'[r] \ open_list[r]} = MustPush(r)
                    /\ Cardinality(open_list'[r] \ open_list[r])
                          = Cardinality(MustPush(r))
                    /\ Len(nodes'[r]) = Len(nodes[r]) + Cardinality(MustPush(r))
              /\ pc'[r] = "done" => open_list'[r] \subseteq open_list[r]
      ]_vars

C18_Witness ==
    \E r \in Runs :
        /\ Len(popped[r]) >= 3
        /\ \E d \in Directions :
              LET cur == nodes[r][popped[r][Len(popped[r])]].state
              IN  /\ make_move(cur, d).ret # NoneState
                  /\ make_move(cur, d).ret # nodes[r][1].state
                  /\ InClosed(make_move(cur, d).ret, closed_set[r])
                  /\ \E n \in open_list[r] :
                        /\ nodes[r][n.node].parent = popped[r][Len(popped[r])]
                        /\ ~InClosed(nodes[r][n.node].state, closed_set[r])

\* the states popped so far by invocation r, in pop order
PoppedStates(r) == [i \in 1..Len(popped[r]) |-> nodes[r][popped[r][i]].state]

IsPrefix(a, b) == Len(a) <= Len(b) /\ \A i \in 1..Len(a) : a[i] = b[i]

\* C19: whatever the interleaving with the other invocation, an invocation
\* returns the path and expansion count, and pops the states, of the
\* uninterrupted call on the same root and heuristic; two invocations with the
\* same heuristic pop the same states in the same order and return the same
\* result; the root node keeps the board of the root.
C19_Deterministic ==
    /\ \A r \in Runs :
          /\ nodes[r][1].state = start
          /\ pc[r] = "done" =>
                /\ result[r].path = solve_by_heuristic(start, heuristic_fn[r]).path
                /\ result[r].expanded
                      = solve_by_heuristic(start, heuristic_fn[r]).expanded
                /\ PoppedStates(r) = solve_by_heuristic(start, heuristic_fn[r]).pops
    /\ \A r, q \in Runs :
          heuristic_fn[r] = heuristic_fn[q] =>
              /\ IsPrefix(PoppedStates(r), PoppedStates(q))
                    \/ IsPrefix(PoppedStates(q), PoppedStates(r))
              /\ (pc[r] = "done" /\ pc[q] = "done") =>
                    (result[r] = result[q] /\ PoppedStates(r) = PoppedStates(q))

C19_Witness ==
    /\ heuristic_fn[1] = heuristic_fn[2]
    /\ start.size = 3
    /\ pc[1] = "done" /\ pc[2] = "done"
    /\ result[1] = result[2]
    /\ Len(result[1].path) >= 5
    /\ result[1].expanded > Len(result[1].path)

\* length of a shortest sequence of legal moves from frontier's states to
\* target, by breadth-first search over make_move; -1 beyond limit moves
RECURSIVE DistanceBetween(_, _, _, _, _)
DistanceBetween(seen, frontier, target, k, limit) ==
    IF target \in frontier THEN k
    ELSE IF frontier = {} \/ k >= limit THEN -1
    ELSE LET nxt == {make_move(s, d).ret : s \in frontier, d \in Directions}
                        \ ({NoneState} \cup seen)
         IN  DistanceBetween(seen \cup nxt, nxt, target, k + 1, limit)

\* the positions in the pop order of r, before the last one, that hold the
\* board popped last
EarlierPops(r) ==
    {j \in 1..(Len(popped[r]) - 1) :
        StateEq(nodes[r][popped[r][j]].state,
                nodes[r][popped[r][Len(popped[r])]].state)}

\* C20: the node popped last, if its board is popped for the first time, has
\* g_cost equal to the length of a shortest move sequence from the root to
\* its board (breadth-first search); if its board was popped before, its
\* g_cost is not smaller than that of any earlier pop of the board.
C20_FirstPopOptimal ==
    \A r \in Runs :
        Len(popped[r]) > 0 =>
            LET n == nodes[r][popped[r][Len(popped[r])]]
            IN  IF EarlierPops(r) = {}
                THEN n.g_cost =
                        DistanceBetween({start}, {start}, n.state, 0, n.g_cost)
                ELSE \A j \in EarlierPops(r) :
                        n.g_cost >= nodes[r][popped[r][j]].g_cost

C20_Witness ==
    \E r \in Runs :
        /\ start.size = 3
        /\ Len(popped[r]) > 0
        /\ EarlierPops(r) # {}
        /\ nodes[r][popped[r][Len(popped[r])]].g_cost >= 5
        /\ \E j \in 1..Len(popped[r]) :
              /\ nodes[r][popped[r][j]].g_cost >= 4
              /\ \A i \in 1..(j - 1) :
                    ~StateEq(nodes[r][popped[r][i]].state,
                             nodes[r][popped[r][j]].state)

\* the boards of seq are pairwise different
NoRepeat(seq) ==
    \A i, j \in 1..Len(seq) : i < j => ~StateEq(seq[i], seq[j])

\* C21: the parent chain of every node created by the search, and every
\* returned path, holds no board twice.
C21_NoRepeatedBoard ==
    \A r \in Runs :
        /\ \A n \in 1..Len(nodes[r]) : NoRepeat(PathBackward(nodes[r], n))
        /\ NoRepeat(result[r].path)

C21_Witness ==
    \E r \in Runs :
        /\ pc[r] = "done"
        /\ Len(result[r].path) >= 6
        /\ NoRepeat(result[r].path)
        /\ \E n \in 1..Len(nodes[r]) :
              /\ nodes[r][n].g_cost >= 5
              /\ n \in {popped[r][i] : i \in 1..Len(popped[r])}
              /\ \E d \in Directions :
                    /\ StateEq(make_move(nodes[r][n].state, d).ret,
                               nodes[r][nodes[r][n].parent].state)
                    /\ InClosed(make_move(nodes[r][n].state, d).ret,
                                closed_set[r])

====
